---- MODULE Spec2Model ----
(***************************************************************************)
(* CareQ: triage-priority queue, wait-time estimator and the scheduler of  *)
(* "next in queue" notifications (backend/app.py, backend/triage.py,       *)
(* backend/ai_predictor.py, backend/db.py).                                *)
(*                                                                         *)
(* Time is counted in units of 30 seconds (the clamp of line 479), so one  *)
(* minute is two units.  Numbers with a fractional part (the estimator's   *)
(* float arithmetic) are exact rationals [n, d] kept in lowest terms.      *)
(***************************************************************************)
EXTENDS Integers, Sequences, FiniteSets, Bags, TLC

(***************************************************************************)
(* Bounds of the model                                                     *)
(***************************************************************************)
MaxUsers == 4
MaxOps == 2
MaxStart == 3
MaxTime == 1
MaxHandlers == 2
MaxRows == 3
MaxAt == 2
MaxCalls == 102
MaxVaried == 2
MaxQueue == 11
MaxStore == 51
MaxPredicts == 1
MaxFrameCalls == 3
MaxLiveUsers == 2

(***************************************************************************)
(* Program constants                                                       *)
(***************************************************************************)
NOTIFICATION_WINDOW == 3
LeadMinutes == 5
UnitsPerMinute == 2
ClampUnits == 1
BaseMinutes == 15
FEEDBACK_CAPACITY == 100

(***************************************************************************)
(* Generic helpers                                                         *)
(***************************************************************************)
Range(s) == {s[i] : i \in DOMAIN s}

Max(a, b) == IF a >= b THEN a ELSE b

Min(a, b) == IF a <= b THEN a ELSE b

RECURSIVE SumOver(_, _)
SumOver(f, S) ==
    IF S = {} THEN 0
    ELSE LET x == CHOOSE y \in S : TRUE IN f[x] + SumOver(f, S \ {x})

RECURSIVE GCD(_, _)
GCD(a, b) == IF b = 0 THEN a ELSE GCD(b, a % b)

\* a rational n/d in lowest terms (n >= 0, d > 0)
Rat(n, d) == LET g == GCD(n, d) IN [n |-> n \div g, d |-> d \div g]

RatMul(r, n, d) == Rat(r.n * n, r.d * d)

RatRound(r) == (2 * r.n + r.d) \div (2 * r.d)

RatFloor(r) == r.n \div r.d

(***************************************************************************)
(* triage.py: the severity scorer                                          *)
(***************************************************************************)
SYMPTOM_SEVERITY ==
    ( "shortness of breath" :> 8 @@ "chest pain" :> 7 @@ "severe pain" :> 7
   @@ "difficulty breathing" :> 8 @@ "unconsciousness" :> 10
   @@ "sudden weakness" :> 7
   @@ "fever" :> 4 @@ "persistent cough" :> 3 @@ "abdominal pain" :> 5
   @@ "headache with fever" :> 5 @@ "vomiting" :> 3 @@ "diarrhea" :> 3
   @@ "dizziness" :> 4
   @@ "headache" :> 2 @@ "nausea" :> 2 @@ "mild pain" :> 2
   @@ "sore throat" :> 1 @@ "runny nose" :> 1 )

\* str.lower() on the raw strings the model feeds in
Lower(s) ==
    CASE s = "Chest Pain" -> "chest pain"
      [] s = "FEVER" -> "fever"
      [] s = " Headache " -> " headache "
      [] OTHER -> s

\* str.strip() on the raw strings the model feeds in
Strip(s) ==
    CASE s = " headache " -> "headache"
      [] s = " Headache " -> "Headache"
      [] s = "fever " -> "fever"
      [] OTHER -> s

symptoms_as_given(symptoms) == {symptoms[i] : i \in DOMAIN symptoms}

normalized_symptoms(symptoms) == {Strip(Lower(symptoms[i])) : i \in DOMAIN symptoms}

age_zero_is_infant(age) ==
    IF age = 0 THEN 5
    ELSE IF age < 18 THEN 2
    ELSE IF age >= 65 THEN 4
    ELSE 0

AgeScore(age) ==
    IF age < 1 THEN 5
    ELSE IF age < 18 THEN 2
    ELSE IF age >= 65 THEN 4
    ELSE 0

get_triage_score(symptoms, age) ==
    LET ns == normalized_symptoms(symptoms)
        base == AgeScore(age)
                + SumOver(SYMPTOM_SEVERITY, {k \in DOMAIN SYMPTOM_SEVERITY : k \in ns})
        c1 == IF "chest pain" \in ns /\ "shortness of breath" \in ns THEN 5 ELSE 0
        c2 == IF "fever" \in ns /\ "headache" \in ns THEN 2 ELSE 0
        c3 == IF "severe pain" \in ns /\ (age < 5 \/ age > 75) THEN 3 ELSE 0
    IN Max(0, base + c1 + c2 + c3)

level_above_threshold(score) ==
    IF score > 7 THEN "Critical"
    ELSE IF score > 4 THEN "Urgent"
    ELSE "Stable"

get_severity_level(score) ==
    IF score >= 7 THEN "Critical"
    ELSE IF score >= 4 THEN "Urgent"
    ELSE "Stable"

(***************************************************************************)
(* ai_predictor.py: the wait-time estimator.  The model_weights tables are *)
(* in tenths.                                                              *)
(***************************************************************************)
severity_multiplier(level) ==
    CASE level = "Critical" -> 1
      [] level = "Urgent" -> 3
      [] level = "Medium" -> 6
      [] level = "Low" -> 10
      [] OTHER -> 6

queue_length_factor == 8

time_of_day_factor(period) ==
    CASE period = "morning" -> 12
      [] period = "afternoon" -> 10
      [] period = "evening" -> 8
      [] period = "night" -> 6
      [] OTHER -> 10

DayNames ==
    {"Monday", "Tuesday", "Wednesday", "Thursday", "Friday", "Saturday", "Sunday"}

day_of_week_factor(day) ==
    CASE day = "Monday" -> 13
      [] day = "Tuesday" -> 12
      [] day = "Wednesday" -> 11
      [] day = "Thursday" -> 10
      [] day = "Friday" -> 9
      [] day = "Saturday" -> 7
      [] day = "Sunday" -> 6
      [] OTHER -> 10

symptom_complexity(complexity) ==
    CASE complexity = "simple" -> 8
      [] complexity = "moderate" -> 10
      [] complexity = "complex" -> 13
      [] OTHER -> 10

time_period(h) ==
    IF 6 <= h /\ h < 12 THEN "morning"
    ELSE IF 12 <= h /\ h < 18 THEN "afternoon"
    ELSE IF 18 <= h /\ h < 24 THEN "evening"
    ELSE "night"

Complexity(symptom_count) ==
    IF symptom_count = 1 THEN "simple"
    ELSE IF symptom_count <= 3 THEN "moderate"
    ELSE "complex"

\* current_queue is a set of [id, severity_level, called, eta] records
extract_features(patient_data, current_queue, h, day) ==
    [ age |-> patient_data.age,
      day_of_week |-> day,
      high_priority_in_queue |->
          Cardinality({p \in current_queue :
                          ~p.called /\ p.severity_level \in {"Critical", "Urgent"}}),
      hour |-> h,
      queue_length |-> Cardinality({p \in current_queue : ~p.called}),
      severity_level |-> patient_data.severity_level,
      symptom_complexity |-> Complexity(Len(patient_data.symptoms)),
      symptom_count |-> Len(patient_data.symptoms),
      time_of_day |-> time_period(h) ]

base_time_counts_self(features) ==
    LET t0 == Rat(BaseMinutes, 1)
        t1 == RatMul(t0, severity_multiplier(features.severity_level), 10)
        t2 == RatMul(t1, 10 + (features.queue_length + 1) * queue_length_factor, 10)
        t3 == RatMul(t2, time_of_day_factor(features.time_of_day), 10)
        t4 == RatMul(t3, day_of_week_factor(features.day_of_week), 10)
    IN RatMul(t4, symptom_complexity(features.symptom_complexity), 10)

calculate_base_waiting_time(features) ==
    LET t0 == Rat(BaseMinutes, 1)
        t1 == RatMul(t0, severity_multiplier(features.severity_level), 10)
        t2 == RatMul(t1, 10 + features.queue_length * queue_length_factor, 10)
        t3 == RatMul(t2, time_of_day_factor(features.time_of_day), 10)
        t4 == RatMul(t3, day_of_week_factor(features.day_of_week), 10)
    IN RatMul(t4, symptom_complexity(features.symptom_complexity), 10)

\* a feedback record keeps the two wait times; accuracy is derived from them
RecordAccuracy(rec) ==
    LET hi == Max(rec.actual_wait_time, rec.predicted_wait_time)
        lo == Min(rec.actual_wait_time, rec.predicted_wait_time)
    IN Rat(hi - (hi - lo), hi)   \* 1 - |actual - predicted| / max(actual, predicted)

RatAdd(a, b) == Rat(a.n * b.d + b.n * a.d, a.d * b.d)

RECURSIVE SumAccuracy(_)
SumAccuracy(recs) ==
    IF recs = <<>> THEN Rat(0, 1)
    ELSE RatAdd(RecordAccuracy(Head(recs)), SumAccuracy(Tail(recs)))

LastN(s, k) == IF Len(s) <= k THEN s ELSE SubSeq(s, Len(s) - k + 1, Len(s))

accuracy_over_whole_store(hist) ==
    IF Len(hist) < 5 THEN Rat(8, 10)
    ELSE LET total == SumAccuracy(hist)
         IN Rat(total.n, total.d * Len(hist))

calculate_recent_accuracy(hist) ==
    IF Len(hist) < 5 THEN Rat(8, 10)
    ELSE LET recent == LastN(hist, 10)
             total == SumAccuracy(recent)
         IN Rat(total.n, total.d * Len(recent))

apply_ai_adjustments(base_time, features, hist) ==
    LET acc == calculate_recent_accuracy(hist)
        \* 1 + (0.7 - acc) * 0.2 = (57 - 10 acc) / 50
        a0 == IF Len(hist) > 10 /\ acc.n * 10 < 7 * acc.d
              THEN RatMul(base_time, 57 * acc.d - 10 * acc.n, 50 * acc.d)
              ELSE base_time
        a1 == IF features.high_priority_in_queue > 3 THEN RatMul(a0, 12, 10) ELSE a0
        a2 == IF features.time_of_day = "morning" /\ features.queue_length > 5
              THEN RatMul(a1, 13, 10) ELSE a1
    IN IF features.age < 18 \/ features.age > 65 THEN RatMul(a2, 9, 10) ELSE a2

fallback_counts_called(patient_data, current_queue) ==
    LET queue_length == Cardinality(current_queue)
        severity == patient_data.severity_level
        wait_time == IF severity = "Critical" THEN 5
                     ELSE IF severity = "Urgent" THEN 10 + queue_length * 2
                     ELSE IF severity = "Medium" THEN 20 + queue_length * 3
                     ELSE 30 + queue_length * 4
    IN Max(1, wait_time)

fallback_prediction(patient_data, current_queue) ==
    LET queue_length == Cardinality({p \in current_queue : ~p.called})
        severity == patient_data.severity_level
        wait_time == IF severity = "Critical" THEN 5
                     ELSE IF severity = "Urgent" THEN 10 + queue_length * 2
                     ELSE IF severity = "Medium" THEN 20 + queue_length * 3
                     ELSE 30 + queue_length * 4
    IN Max(1, wait_time)

\* the predicted_wait_time of the main path (well-typed input never faults)
predict_waiting_time(patient_data, current_queue, h, day, hist) ==
    LET features == extract_features(patient_data, current_queue, h, day)
        base_time == calculate_base_waiting_time(features)
        ai_adjusted_time == apply_ai_adjustments(base_time, features, hist)
    IN Max(1, RatFloor(ai_adjusted_time))

confidence_ignores_store(features, hist) ==
    LET c2 == IF features.queue_length > 10 THEN 7 ELSE 8
        c3 == IF features.severity_level = "Critical" /\ features.queue_length > 5
              THEN c2 - 2 ELSE c2
    IN Max(1, Min(10, c3))

\* _calculate_confidence, in tenths
calculate_confidence(features, hist) ==
    LET c0 == 8
        c1 == IF Len(hist) > 50 THEN c0 + 1 ELSE c0
        c2 == IF features.queue_length > 10 THEN c1 - 1 ELSE c1
        c3 == IF features.severity_level = "Critical" /\ features.queue_length > 5
              THEN c2 - 2 ELSE c2
    IN Max(1, Min(10, c3))

\* _generate_insights
generate_insights(features) ==
    LET by_severity ==
            IF features.severity_level = "Critical"
            THEN <<"Critical priority - you'll be seen very soon">>
            ELSE IF features.severity_level = "Urgent"
                 THEN <<"Urgent priority - shorter wait time expected">>
                 ELSE <<>>
        by_queue ==
            IF features.queue_length = 0
            THEN <<"No patients ahead - immediate attention">>
            ELSE IF features.queue_length <= 3
                 THEN <<"Short queue - quick service expected">>
                 ELSE IF features.queue_length <= 7
                      THEN <<"Moderate queue - reasonable wait time">>
                      ELSE <<"Longer queue - please be patient">>
        by_time ==
            IF features.time_of_day = "morning"
            THEN <<"Morning rush hour - busier than usual">>
            ELSE IF features.time_of_day = "evening"
                 THEN <<"Evening hours - typically less busy">>
                 ELSE <<>>
        by_symptoms ==
            IF features.symptom_complexity = "complex"
            THEN <<"Complex symptoms may require longer consultation">>
            ELSE <<>>
    IN by_severity \o by_queue \o by_time \o by_symptoms

\* predict_waiting_time with everything it returns.  types gives the Python
\* type of the age and of the symptoms passed in: an age that is no number
\* makes line 182 raise TypeError, which line 79 catches; symptoms that are
\* no list count as one symptom (line 112) and are held as a list of one.
predict_waiting_time_result(patient_data, types, current_queue, h, day, hist) ==
    IF types.age # "int"
    THEN [ai_adjusted_time |-> Rat(0, 1),
          confidence_score |-> 5,
          insights |-> <<"Using fallback prediction - AI temporarily unavailable">>,
          path |-> "fallback",
          predicted_wait_time |-> fallback_prediction(patient_data, current_queue)]
    ELSE LET features == extract_features(patient_data, current_queue, h, day)
             base_time == calculate_base_waiting_time(features)
             ai_adjusted_time == apply_ai_adjustments(base_time, features, hist)
         IN [ai_adjusted_time |-> ai_adjusted_time,
             confidence_score |-> calculate_confidence(features, hist),
             insights |-> generate_insights(features),
             path |-> "main",
             predicted_wait_time |-> Max(1, RatFloor(ai_adjusted_time))]

(***************************************************************************)
(* State                                                                   *)
(***************************************************************************)
VARIABLES
    patients,         \* db.py Patient table: patients[id] is the row with that id
    jobs,             \* the scheduler's job store (pending jobs)
    submitted,        \* jobs the scheduler has popped and handed to the executor
    log,              \* bag of the jobs whose closure has run (its print)
    now,              \* datetime.now(), in 30-second units
    hour,             \* datetime.now().hour
    day_of_week,      \* datetime.now().strftime('%A')
    historical_data,  \* ai_predictor.historical_data
    handlers,         \* the request handlers in flight
    gen,              \* number of reschedule_queue_notifications calls so far
    ops,              \* number of requests accepted so far
    dirty,            \* a mutation was committed since the job store was rebuilt
    missed,           \* a handler ended with its mutation not followed by a rebuild
    served_ended,     \* ids whose setServed(true) handler ended, still served
    ev,               \* the last step taken
    ret               \* the last call made on its own, with what it returned

vars ==
    << patients, jobs, submitted, log, now, hour, day_of_week, historical_data,
       handlers, gen, ops, dirty, missed, served_ended, ev, ret >>

Handlers == 1..MaxHandlers

\* what the model feeds to POST /patients/ (PatientCreate: age, symptoms)
AdmitInputs ==
    { [age |-> 45, symptoms |-> <<"Chest Pain", "shortness of breath">>],
      [age |-> 70, symptoms |-> <<"headache">>] }

ClockHours == {9}

ClockDays == {"Monday"}

IdleHandler ==
    [pc |-> "idle", kind |-> "none", pid |-> 0, eta |-> 0, stale |-> FALSE,
     overlap |-> "no"]

Event(op, id, g, flag, same) ==
    [op |-> op, id |-> id, gen |-> g, flag |-> flag, same |-> same]

Quiet == Event("step", 0, 0, FALSE, FALSE)

\* no call of a function on its own has been made
NoCall == [op |-> "none"]

(***************************************************************************)
(* The queue order: ORDER BY triage_score DESC, queued_at ASC              *)
(***************************************************************************)
newest_first(db, a, b) ==
    \/ db[a].triage_score > db[b].triage_score
    \/ /\ db[a].triage_score = db[b].triage_score
       /\ a > b

\* rows equal in both keys: SQL leaves their order open; SQLite scans the
\* table by rowid and gives the same answer each time the query is run
Precedes(db, a, b) ==
    \/ db[a].triage_score > db[b].triage_score
    \/ /\ db[a].triage_score = db[b].triage_score
       /\ db[a].queued_at < db[b].queued_at
    \/ /\ db[a].triage_score = db[b].triage_score
       /\ db[a].queued_at = db[b].queued_at
       /\ a < b

RECURSIVE OrderBy(_, _)
OrderBy(db, ids) ==
    IF ids = {} THEN <<>>
    ELSE LET first == CHOOSE a \in ids : \A b \in ids \ {a} : Precedes(db, a, b)
         IN <<first>> \o OrderBy(db, ids \ {first})

\* GET /patients/: every row, served or not, in queue order
get_patients(db) == OrderBy(db, DOMAIN db)

\* the rows create_patient and predict_wait_time hand to the predictor
current_queue(db) ==
    { [id |-> i, severity_level |-> db[i].severity_level,
       called |-> db[i].called, eta |-> db[i].eta] :
          i \in {k \in DOMAIN db : ~db[k].called} }

all_patients_in_order(db) == OrderBy(db, DOMAIN db)

\* reschedule_queue_notifications: uncalled patients, ordered by priority
patients_in_queue(db) == OrderBy(db, {i \in DOMAIN db : ~db[i].called})

whole_queue(ids) == ids

\* patients_in_queue[:NOTIFICATION_WINDOW]
Window(ids) == SubSeq(ids, 1, Min(Len(ids), NOTIFICATION_WINDOW))

(***************************************************************************)
(* The job store.  A job is [id, run_date, gen, p_user_id]: id stands for  *)
(* the job id "notify_<id>", gen tells the jobs of one call from those of  *)
(* another (two job objects are never the same object).                    *)
(***************************************************************************)
\* job.id.startswith("notify_"): true of every id line 489 makes
IsNotifyId(id) == id \in Nat

remove_notify_jobs(store) == {j \in store : ~IsNotifyId(j.id)}

\* scheduler.add_job(..., id=..., replace_existing=True)
add_job(store, job) == {j \in store : j.id # job.id} \cup {job}

unclamped_time(eta, clock, advanced) == clock + (eta - LeadMinutes) * UnitsPerMinute

\* lines 477-479; advanced: the clock moved between the reads of 477 and 478
\* (by less than a unit)
notification_time(eta, clock, advanced) ==
    LET t == clock + (eta - LeadMinutes) * UnitsPerMinute
    IN IF t < clock \/ (t = clock /\ advanced) THEN clock + ClampUnits ELSE t

\* the session's identity map: the handler's own row keeps the attributes of
\* its last db.refresh, every other row is loaded by the query
PatientEta(db, cache, id) == IF cache.pid = id THEN cache.eta ELSE db[id].eta

RECURSIVE RegisterFrom(_, _, _, _, _, _, _)
RegisterFrom(store, window, db, cache, clock, g, adv) ==
    IF window = <<>> THEN store
    ELSE LET id == Head(window)
             job == [id |-> id,
                     run_date |-> notification_time(PatientEta(db, cache, id), clock,
                                                    id \in adv),
                     gen |-> g,
                     p_user_id |-> db[id].user_id]
         IN RegisterFrom(add_job(store, job), Tail(window), db, cache, clock, g, adv)

reschedule_keep_all(store, db, cache, clock, g, adv) ==
    store \cup RegisterFrom({}, Window(patients_in_queue(db)), db, cache, clock, g, adv)

reschedule_queue_notifications(store, db, cache, clock, g, adv) ==
    RegisterFrom(remove_notify_jobs(store), Window(patients_in_queue(db)),
                 db, cache, clock, g, adv)

(***************************************************************************)
(* Request handlers.  A handler runs without interruption up to its first  *)
(* await that suspends: the step that commits, the broadcast of lines      *)
(* 141-145 / 181-185, and reschedule_queue_notifications with the return   *)
(* (it holds no await that suspends).  Handler slots are interchangeable:  *)
(* a request takes the lowest free one.                                    *)
(***************************************************************************)
InFlight(h) == handlers[h].pc # "idle"

FreeSlot(h) == ~InFlight(h) /\ \A g \in Handlers : g < h => InFlight(g)

\* a handler starts: it overlaps every handler in flight
Started(h, rec) ==
    [g \in Handlers |->
        IF g = h
        THEN [rec EXCEPT !.overlap = IF \E k \in Handlers \ {h} : InFlight(k)
                                     THEN "yes" ELSE "no"]
        ELSE IF InFlight(g) /\ handlers[g].overlap = "no"
             THEN [handlers[g] EXCEPT !.overlap = "yes"]
             ELSE handlers[g]]

\* a handler ends: the handlers in flight learn how their peer ended
Ended(h, how, rebuilt) ==
    [g \in Handlers |->
        IF g = h THEN IdleHandler
        ELSE IF InFlight(g)
             THEN [handlers[g] EXCEPT
                     !.overlap = IF @ \in {"yes", "ok"} THEN how ELSE @,
                     !.stale = IF rebuilt THEN FALSE ELSE @]
             ELSE handlers[g]]

ServedEnded(h) ==
    IF handlers[h].kind = "serve" /\ patients[handlers[h].pid].called
    THEN served_ended \cup {handlers[h].pid}
    ELSE served_ended

admit_always_inserts(db, user, inp, h, day, hist) ==
    LET triage_score == get_triage_score(inp.symptoms, inp.age)
        severity_level == get_severity_level(triage_score)
        patient_data == [severity_level |-> severity_level,
                         symptoms |-> inp.symptoms, age |-> inp.age]
        eta == predict_waiting_time(patient_data, current_queue(db), h, day, hist)
    IN Append(db, [user_id |-> user, age |-> inp.age,
                   symptoms |-> inp.symptoms,
                   triage_score |-> triage_score,
                   severity_level |-> severity_level,
                   eta |-> eta,
                   queued_at |-> Len(db) + 1,
                   called |-> FALSE])

\* lines 87-138: the row create_patient writes; the table with the row
\* inserted (a new user_id) or updated in place (a known one)
admit_row(db, user, inp, h, day, hist) ==
    LET existing == {i \in DOMAIN db : db[i].user_id = user}
        triage_score == get_triage_score(inp.symptoms, inp.age)
        severity_level == get_severity_level(triage_score)
        patient_data == [severity_level |-> severity_level,
                         symptoms |-> inp.symptoms, age |-> inp.age]
        eta == predict_waiting_time(patient_data, current_queue(db), h, day, hist)
    IN IF existing = {}
       THEN Append(db, [user_id |-> user, age |-> inp.age,
                        symptoms |-> inp.symptoms,
                        triage_score |-> triage_score,
                        severity_level |-> severity_level,
                        eta |-> eta,
                        queued_at |-> Len(db) + 1,
                        called |-> FALSE])
       ELSE LET id == CHOOSE i \in existing : TRUE
            IN [db EXCEPT ![id] =
                   [@ EXCEPT !.age = inp.age, !.symptoms = inp.symptoms,
                             !.triage_score = triage_score,
                             !.severity_level = severity_level,
                             !.eta = eta]]

RowOf(db, user) == CHOOSE i \in DOMAIN db : db[i].user_id = user

\* POST /patients/ (lines 85-138): score, predict, insert or update, commit
create_patient(h, user, inp) ==
    /\ FreeSlot(h)
    /\ ops < MaxOps
    /\ patients' = admit_row(patients, user, inp, hour, day_of_week, historical_data)
    /\ handlers' = Started(h, [pc |-> "broadcast", kind |-> "admit",
                               pid |-> RowOf(patients', user),
                               eta |-> patients'[RowOf(patients', user)].eta,
                               stale |-> TRUE, overlap |-> "no"])
    /\ dirty' = TRUE
    /\ ops' = ops + 1
    /\ ev' = Quiet
    /\ UNCHANGED ret
    /\ UNCHANGED << jobs, submitted, log, now, hour, day_of_week, historical_data,
                    gen, missed, served_ended >>

\* PUT /patients/{patient_id} (lines 171-178), the patient exists
update_patient(h, patient_id, called) ==
    /\ FreeSlot(h)
    /\ ops < MaxOps
    /\ patient_id \in DOMAIN patients
    /\ patients' = [patients EXCEPT ![patient_id].called = called]
    /\ handlers' = Started(h, [pc |-> "broadcast",
                               kind |-> IF called THEN "serve" ELSE "unserve",
                               pid |-> patient_id, eta |-> patients[patient_id].eta,
                               stale |-> TRUE, overlap |-> "no"])
    /\ served_ended' = IF called THEN served_ended ELSE served_ended \ {patient_id}
    /\ dirty' = TRUE
    /\ ops' = ops + 1
    /\ ev' = Quiet
    /\ UNCHANGED ret
    /\ UNCHANGED << jobs, submitted, log, now, hour, day_of_week, historical_data,
                    gen, missed >>

resync_then_not_found(h, patient_id, called) ==
    /\ FreeSlot(h)
    /\ ops < MaxOps
    /\ patient_id \notin DOMAIN patients
    /\ jobs' = reschedule_queue_notifications(jobs, patients, IdleHandler, now,
                                              gen + 1, {})
    /\ gen' = gen + 1
    /\ ops' = ops + 1
    /\ ev' = Event("notfound", patient_id, gen, FALSE, FALSE)
    /\ UNCHANGED << patients, submitted, log, now, hour, day_of_week,
                    historical_data, handlers, dirty, missed, served_ended, ret >>

\* PUT /patients/{patient_id} (lines 172-174), no such patient: 404
update_patient_not_found(h, patient_id, called) ==
    /\ FreeSlot(h)
    /\ ops < MaxOps
    /\ patient_id \notin DOMAIN patients
    /\ ops' = ops + 1
    /\ ev' = Event("notfound", patient_id, gen, FALSE, FALSE)
    /\ UNCHANGED ret
    /\ UNCHANGED << patients, jobs, submitted, log, now, hour, day_of_week,
                    historical_data, handlers, gen, dirty, missed, served_ended >>

\* lines 141-145 / 181-185: GET /patients/ and the broadcast succeed
broadcast(h) ==
    /\ handlers[h].pc = "broadcast"
    /\ handlers' = [handlers EXCEPT ![h].pc = "resync"]
    /\ ev' = Quiet
    /\ UNCHANGED ret
    /\ UNCHANGED << patients, jobs, submitted, log, now, hour, day_of_week,
                    historical_data, gen, ops, dirty, missed, served_ended >>

\* lines 141-145 / 181-185 raise (the request, raise_for_status or a send to
\* a closed socket): the exception leaves the handler, line 147 / 187 is
\* not reached
broadcast_fails(h) ==
    /\ handlers[h].pc = "broadcast"
    /\ handlers' = Ended(h, "fail", FALSE)
    /\ missed' = (missed \/ handlers[h].stale)
    /\ served_ended' = ServedEnded(h)
    /\ ev' = Event("fail", handlers[h].pid, gen, FALSE, FALSE)
    /\ UNCHANGED ret
    /\ UNCHANGED << patients, jobs, submitted, log, now, hour, day_of_week,
                    historical_data, gen, ops, dirty >>

\* lines 147 / 187 and the return: reschedule_queue_notifications(db)
resync(h, adv) ==
    /\ handlers[h].pc = "resync"
    /\ jobs' = reschedule_queue_notifications(jobs, patients, handlers[h], now,
                                              gen + 1, adv)
    /\ gen' = gen + 1
    /\ dirty' = FALSE
    /\ missed' = FALSE
    /\ handlers' = Ended(h, "ok", TRUE)
    /\ served_ended' = ServedEnded(h)
    /\ ev' = Event("resync", handlers[h].pid, gen + 1, handlers[h].overlap = "ok",
                   /\ ~dirty
                   /\ gen > 0
                   /\ Cardinality(jobs) = Len(Window(patients_in_queue(patients))))
    /\ UNCHANGED ret
    /\ UNCHANGED << patients, submitted, log, now, hour, day_of_week,
                    historical_data, ops >>

(***************************************************************************)
(* The scheduler's timer and the executor                                  *)
(***************************************************************************)
JobKey(j) == [id |-> j.id, gen |-> j.gen]

fire_keeps_job(j) ==
    /\ j \in jobs
    /\ j.run_date <= now
    /\ j \notin submitted
    /\ submitted' = submitted \cup {j}
    /\ ev' = Quiet
    /\ UNCHANGED ret
    /\ UNCHANGED << patients, jobs, log, now, hour, day_of_week, historical_data,
                    handlers, gen, ops, dirty, missed, served_ended >>

\* a due job of a DateTrigger: the scheduler takes it out of the store and
\* submits its coroutine to the event loop
fire(j) ==
    /\ j \in jobs
    /\ j.run_date <= now
    /\ jobs' = jobs \ {j}
    /\ submitted' = submitted \cup {j}
    /\ ev' = Quiet
    /\ UNCHANGED ret
    /\ UNCHANGED << patients, log, now, hour, day_of_week, historical_data,
                    handlers, gen, ops, dirty, missed, served_ended >>

\* lines 481-484: the closure runs; it prints and reads no state
send_next_notification_closure(j) ==
    /\ j \in submitted
    /\ submitted' = submitted \ {j}
    /\ log' = log (+) SetToBag({JobKey(j)})
    /\ ev' = Event("deliver", j.id, j.gen, FALSE, FALSE)
    /\ UNCHANGED ret
    /\ UNCHANGED << patients, jobs, now, hour, day_of_week, historical_data,
                    handlers, gen, ops, dirty, missed, served_ended >>

Tick ==
    /\ now < MaxTime
    /\ now' = now + 1
    /\ ev' = Quiet
    /\ UNCHANGED ret
    /\ UNCHANGED << patients, jobs, submitted, log, hour, day_of_week,
                    historical_data, handlers, gen, ops, dirty, missed,
                    served_ended >>

(***************************************************************************)
(* careq.db outlives the process and the scheduler does not: the server    *)
(* starts with the rows earlier admissions left and an empty job store.    *)
(***************************************************************************)
RECURSIVE AdmitAll(_, _, _, _)
AdmitAll(db, inputs, h, day) ==
    IF inputs = <<>> THEN db
    ELSE AdmitAll(admit_row(db, Len(db) + 1, Head(inputs), h, day, <<>>),
                  Tail(inputs), h, day)

InitialTables(h, day) ==
    {AdmitAll(<<>>, inputs, h, day) :
        inputs \in UNION {[1..n -> AdmitInputs] : n \in 0..MaxStart}}

Init ==
    /\ hour \in ClockHours
    /\ day_of_week \in ClockDays
    /\ historical_data = <<>>
    /\ patients \in InitialTables(hour, day_of_week)
    /\ jobs = {}
    /\ submitted = {}
    /\ log = EmptyBag
    /\ now = 0
    /\ handlers = [h \in Handlers |-> IdleHandler]
    /\ gen = 0
    /\ ops = 0
    /\ dirty = FALSE
    /\ missed = FALSE
    /\ served_ended = {}
    /\ ev = Quiet
    /\ ret = NoCall

\* the rows of the window whose eta makes the two clock reads decide
OnTheEdge(h) ==
    {id \in Range(Window(patients_in_queue(patients))) :
        PatientEta(patients, handlers[h], id) = LeadMinutes}

Next ==
    \/ \E h \in Handlers, user \in 1..MaxUsers, inp \in AdmitInputs :
          /\ user <= Len(patients) + 1
          /\ create_patient(h, user, inp)
    \/ \E h \in Handlers, id \in 1..MaxUsers, called \in BOOLEAN :
          update_patient(h, id, called)
    \/ \E h \in Handlers, called \in BOOLEAN :
          update_patient_not_found(h, Len(patients) + 1, called)
    \/ \E h \in Handlers : broadcast(h)
    \/ \E h \in Handlers : broadcast_fails(h)
    \/ \E h \in Handlers : \E adv \in SUBSET OnTheEdge(h) : resync(h, adv)
    \/ \E j \in jobs : fire(j)
    \/ \E j \in submitted : send_next_notification_closure(j)
    \/ Tick

Spec == Init /\ [][Next]_vars

(***************************************************************************)
(* Vocabulary of the properties                                            *)
(***************************************************************************)
NonServed == {i \in DOMAIN patients : ~patients[i].called}

\* the non-served entities that come before i: (severityScore desc, queuedAt asc)
Ahead(i) ==
    {k \in NonServed \ {i} :
        \/ patients[k].triage_score > patients[i].triage_score
        \/ /\ patients[k].triage_score = patients[i].triage_score
           /\ patients[k].queued_at < patients[i].queued_at}

\* the first min(3, n) non-served entities
TopIds == {i \in NonServed : Cardinality(Ahead(i)) < 3}

JobIds == {j.id : j \in jobs}

AllIdle == \A h \in Handlers : ~InFlight(h)

FiredKeys == {JobKey(j) : j \in submitted} \cup BagToSet(log)

\* C1: in every reachable state the job store holds at most one job per
\* entity id, whatever the interleaving of handlers, resyncs and firings.
C1_OneJobPerEntity == \A j \in jobs : \A k \in jobs : j.id = k.id => j = k

\* an entity whose earlier job is being fired holds a job registered again
\* under its id by a later resync, next to the jobs of other entities
C1_Witness ==
    /\ \E j \in jobs : \E k \in submitted : k.id = j.id /\ k.gen < j.gen
    /\ Cardinality(jobs) > 1

\* C2: right after a resync the ids with a scheduled job are exactly the
\* first min(3, n) non-served entities of the queue order.
C2_WindowAfterResync == ev.op = "resync" => JobIds = TopIds

\* a resync over more than three non-served entities, a served one beside
C2_Witness ==
    /\ ev.op = "resync"
    /\ Cardinality(NonServed) > 3
    /\ Cardinality(jobs) = 3

\* C3: once setServed(id, true) is committed and its handler has ended, id
\* has no scheduled job and no delivery is made for id while it is served.
C3_ServedNeverNotified ==
    /\ \A id \in served_ended : id \notin JobIds
    /\ ev.op = "deliver" => ev.id \notin served_ended

\* C4: when the last of two overlapping handlers has resynced, the job store
\* is the one a resync on the final queue gives: the top 3 of the final
\* order, one job each, none for a served entity.
C4_ConcurrentResyncs ==
    (ev.op = "resync" /\ ev.flag /\ AllIdle) =>
        /\ JobIds = TopIds
        /\ Cardinality(jobs) = Cardinality(TopIds)
        /\ \A j \in jobs : ~patients[j.id].called

\* two overlapping handlers have both resynced; one of them served a patient
C4_Witness ==
    /\ ev.op = "resync" /\ ev.flag /\ AllIdle
    /\ jobs # {}
    /\ \E i \in DOMAIN patients : patients[i].called

\* C5: a job that a resync has cancelled (every resync cancels all jobs
\* registered before it) is not delivered: a delivery is of a job of the
\* latest resync.
C5_CancelWins == ev.op = "deliver" => ev.gen = gen

\* C6: a job leaves the store by firing or by cancellation and is never
\* scheduled again; it is delivered at most once; a fired job is not pending.
C6_JobLifecycle ==
    /\ \A j \in jobs : j.gen = gen
    /\ \A j \in jobs : JobKey(j) \notin FiredKeys
    /\ \A j \in submitted : JobKey(j) \notin BagToSet(log)
    /\ \A k \in BagToSet(log) : CopiesIn(k, log) <= 1

\* a delivered job, and a later job scheduled for the same entity
C6_Witness ==
    \E k \in BagToSet(log) : \E j \in jobs : j.id = k.id /\ k.gen < j.gen

\* C7: every job a resync registers has fireAt strictly later than the clock.
C7_FireAtInFuture == ev.op = "resync" => \A j \in jobs : j.run_date > now

IdTimes(store) == {<<j.id, j.run_date>> : j \in store}

\* the step is a resync that follows a resync with no commit and no firing
\* between them
SecondResyncStep ==
    /\ gen' = gen + 1
    /\ gen > 0
    /\ ~dirty
    /\ Cardinality(jobs) = Cardinality(TopIds)
    /\ \A j \in jobs : j.gen = gen

\* C8 as stated: the second of two resyncs on an unchanged queue leaves every
\* entity's fireAt as the first call set it.
C8_SameFireAt == [][SecondResyncStep => IdTimes(jobs') = IdTimes(jobs)]_vars

\* C8 as amended: the second resync leaves the same ids with a job, one job
\* each, but every job is a new one, its fireAt recomputed from the clock of
\* the second call and never before it.
C8_SameIdsNewJobs ==
    [][SecondResyncStep =>
          /\ {j.id : j \in jobs'} = JobIds
          /\ Cardinality(jobs') = Cardinality(jobs)
          /\ \A j \in jobs' : j \notin jobs /\ j.gen = gen' /\ j.run_date >= now']_vars

\* a second resync on an unchanged queue has just run over a store no job had
\* fired from, after the clock moved on
C8_Witness == ev.op = "resync" /\ ev.same /\ jobs # {} /\ now > 0

\* C9: no state has a committed mutation whose handler has ended without a
\* resync after the commit.
C9_ResyncAfterEveryMutation == ~missed

PredictedEta(i, queue) ==
    predict_waiting_time([severity_level |-> patients[i].severity_level,
                          symptoms |-> patients[i].symptoms,
                          age |-> patients[i].age],
                         queue, hour, day_of_week, historical_data)

\* C10: when a handler has completed, the stored eta of every non-served
\* entity is the prediction against the post-mutation queue (the queue taken
\* with or without the entity itself).
C10_EtaFresh ==
    ev.op = "resync" =>
        \A i \in NonServed :
            \/ patients[i].eta = PredictedEta(i, current_queue(patients))
            \/ patients[i].eta =
                   PredictedEta(i, {p \in current_queue(patients) : p.id # i})

(***************************************************************************)
(* The queue order on its own: the two queries run over tables whose rows  *)
(* tie in triage_score and in queued_at (datetime.now() of two inserts can *)
(* be equal, and can go back when the clock is set).                       *)
(***************************************************************************)
OrderScores == {2, 6, 20}

\* a row of the patients table with the given keys
TableRow(user, score, at, called) ==
    [user_id |-> user, age |-> 45, symptoms |-> <<"headache">>,
     triage_score |-> score, severity_level |-> get_severity_level(score),
     eta |-> LeadMinutes, queued_at |-> at, called |-> called]

OrderTables ==
    UNION {{[i \in 1..n |-> TableRow(i, k[i][1], k[i][2], k[i][3])] :
               k \in [1..n -> OrderScores \X (1..MaxAt) \X BOOLEAN]} :
           n \in 0..MaxRows}

\* a query has run: what it returned, and what the same query returned the
\* time before if it was the last one run
Returned(op, order) ==
    [op |-> op, order |-> order,
     before |-> IF ret.op = op THEN <<ret.order>> ELSE <<>>]

\* GET /patients/ (line 153)
list_queue ==
    /\ ret' = Returned("get_patients", get_patients(patients))
    /\ UNCHANGED << patients, jobs, submitted, log, now, hour, day_of_week,
                    historical_data, handlers, gen, ops, dirty, missed,
                    served_ended, ev >>

\* lines 469-470 of reschedule_queue_notifications
order_queue ==
    /\ ret' = Returned("patients_in_queue", patients_in_queue(patients))
    /\ UNCHANGED << patients, jobs, submitted, log, now, hour, day_of_week,
                    historical_data, handlers, gen, ops, dirty, missed,
                    served_ended, ev >>

OrderInit ==
    /\ hour \in ClockHours
    /\ day_of_week \in ClockDays
    /\ historical_data = <<>>
    /\ patients \in OrderTables
    /\ jobs = {}
    /\ submitted = {}
    /\ log = EmptyBag
    /\ now = 0
    /\ handlers = [h \in Handlers |-> IdleHandler]
    /\ gen = 0
    /\ ops = 0
    /\ dirty = FALSE
    /\ missed = FALSE
    /\ served_ended = {}
    /\ ev = Quiet
    /\ ret = NoCall

OrderNext ==
    \/ list_queue
    \/ order_queue

OrderSpec == OrderInit /\ [][OrderNext]_vars

\* i comes no later than j by (score descending, queuedAt ascending)
KeyNoLater(i, j) ==
    \/ patients[i].triage_score > patients[j].triage_score
    \/ /\ patients[i].triage_score = patients[j].triage_score
       /\ patients[i].queued_at <= patients[j].queued_at

\* C11: the order of the listing and of the resync holds every entity asked
\* for once, a higher score before a lower one, equal scores by earlier
\* queuedAt, and running the query again on the same rows gives the same
\* sequence.
C11_QueueOrder ==
    ret.op \in {"get_patients", "patients_in_queue"} =>
        /\ Range(ret.order) = IF ret.op = "get_patients" THEN DOMAIN patients
                                                         ELSE NonServed
        /\ Len(ret.order) = Cardinality(Range(ret.order))
        /\ \A i \in 1..Len(ret.order) : \A j \in 1..Len(ret.order) :
              i < j => /\ KeyNoLater(ret.order[i], ret.order[j])
                       /\ ~(patients[ret.order[j]].triage_score
                               > patients[ret.order[i]].triage_score)
        /\ \A b \in Range(ret.before) : b = ret.order

\* the resync's query has run twice over a table where a later row has the
\* score of an earlier one and an earlier queuedAt, next to a served row
C11_Witness ==
    /\ ret.op = "patients_in_queue"
    /\ ret.before = <<ret.order>>
    /\ \E i \in NonServed : \E j \in NonServed :
          /\ i < j
          /\ patients[i].triage_score = patients[j].triage_score
          /\ patients[j].queued_at < patients[i].queued_at
    /\ \E i \in DOMAIN patients : patients[i].called

\* the fireAt a resync gives row id from the eta committed in the table
CommittedTimes(id) ==
    {notification_time(patients[id].eta, now, advanced) : advanced \in BOOLEAN}

\* C12: a resync that starts after a mutation has committed reads the queue
\* with that mutation in it: the jobs it registers are for the top of the
\* committed order and are timed from the committed eta of each row.
C12_ResyncReadsCommitted ==
    ev.op = "resync" =>
        /\ JobIds = TopIds
        /\ \A j \in jobs : j.run_date \in CommittedTimes(j.id)

\* the step answers 404 to a PUT /patients/{patient_id}
NotFoundStep == ev'.op = "notfound"

\* C13: setServed on an id that matches no patient answers 'not found' and
\* changes nothing: the rows, the jobs pending or being fired, and the count
\* of resyncs are as before, and no handler is left in flight for it.
C13_NotFoundChangesNothing ==
    [][NotFoundStep =>
          /\ ev'.id \notin DOMAIN patients
          /\ patients' = patients
          /\ jobs' = jobs
          /\ submitted' = submitted
          /\ gen' = gen
          /\ handlers' = handlers]_vars

\* a 'not found' has just been answered while rows exist and jobs are pending
C13_Witness ==
    /\ ev.op = "notfound"
    /\ patients # <<>>
    /\ jobs # {}
    /\ \E i \in DOMAIN patients : patients[i].called

(***************************************************************************)
(* ai_predictor.py: the feedback store (historical_data) on its own.       *)
(* update_model is called ops times; a record's timestamp is the number of *)
(* the call that made it.  The pair reported is free for the first         *)
(* MaxVaried calls and repeated afterwards.                                *)
(***************************************************************************)
FeedbackInputs == {<<0, 0>>, <<10, 10>>, <<10, 2>>, <<0, 7>>}

\* lines 257-267: append, then keep the last 100
store_record(hist, rec) ==
    LET grown == Append(hist, rec)
    IN IF Len(grown) > FEEDBACK_CAPACITY THEN LastN(grown, FEEDBACK_CAPACITY)
       ELSE grown

\* the pair a call may report
MayReport(actual, predicted) ==
    \/ ops < MaxVaried
    \/ /\ ret.op \in {"update_model"}
       /\ ret.actual = actual
       /\ ret.predicted = predicted

Reported(actual, predicted, raised) ==
    [op |-> "update_model", actual |-> actual, predicted |-> predicted,
     raised |-> raised]

\* update_model(actual, predicted, features) returns
update_model(actual, predicted) ==
    /\ ops < MaxCalls
    /\ MayReport(actual, predicted)
    /\ Max(actual, predicted) # 0
    /\ historical_data' =
           store_record(historical_data,
                        [actual_wait_time |-> actual,
                         predicted_wait_time |-> predicted,
                         timestamp |-> ops + 1])
    /\ ops' = ops + 1
    /\ ret' = Reported(actual, predicted, "none")
    /\ UNCHANGED << patients, jobs, submitted, log, now, hour, day_of_week,
                    handlers, gen, dirty, missed, served_ended, ev >>

\* line 262 divides by max(actual, predicted) = 0 while the record is being
\* built: ZeroDivisionError leaves update_model, nothing is appended
update_model_raises(actual, predicted) ==
    /\ ops < MaxCalls
    /\ MayReport(actual, predicted)
    /\ Max(actual, predicted) = 0
    /\ ops' = ops + 1
    /\ ret' = Reported(actual, predicted, "ZeroDivisionError")
    /\ UNCHANGED << patients, jobs, submitted, log, now, hour, day_of_week,
                    historical_data, handlers, gen, dirty, missed,
                    served_ended, ev >>

FeedbackInit ==
    /\ hour \in ClockHours
    /\ day_of_week \in ClockDays
    /\ historical_data = <<>>
    /\ patients = <<>>
    /\ jobs = {}
    /\ submitted = {}
    /\ log = EmptyBag
    /\ now = 0
    /\ handlers = [h \in Handlers |-> IdleHandler]
    /\ gen = 0
    /\ ops = 0
    /\ dirty = FALSE
    /\ missed = FALSE
    /\ served_ended = {}
    /\ ev = Quiet
    /\ ret = NoCall

FeedbackNext ==
    \/ \E pair \in FeedbackInputs : update_model(pair[1], pair[2])
    \/ \E pair \in FeedbackInputs : update_model_raises(pair[1], pair[2])

FeedbackSpec == FeedbackInit /\ [][FeedbackNext]_vars

\* C14: after n calls of record the store holds min(n, 100) records, the
\* most recent ones, oldest first.
C14_KeepsLatestHundred ==
    /\ Len(historical_data) = Min(ops, 100)
    /\ \A i \in 1..Len(historical_data) :
          historical_data[i].timestamp = ops - Len(historical_data) + i

\* C15: record(actual, predicted) succeeds for all non-negative integers and
\* stores accuracy 1 - |actual - predicted| / max(actual, predicted, 1), a
\* value in [0, 1]; record(0, 0) stores accuracy 1.
C15_RecordStoresAccuracy ==
    ret.op = "update_model" =>
        /\ ret.raised = "none"
        /\ historical_data # <<>>
        /\ LET rec == historical_data[Len(historical_data)]
               acc == RecordAccuracy(rec)
               hi == Max(Max(ret.actual, ret.predicted), 1)
               miss == Max(ret.actual, ret.predicted) - Min(ret.actual, ret.predicted)
           IN /\ rec.actual_wait_time = ret.actual
              /\ rec.predicted_wait_time = ret.predicted
              /\ acc.n * hi = (hi - miss) * acc.d
              /\ 0 <= acc.n /\ acc.n <= acc.d

(***************************************************************************)
(* ai_predictor.py: predict_waiting_time on its own, over stores that      *)
(* update_model has filled, queues of every length up to MaxQueue, and     *)
(* patient data of the right and of the wrong type.                        *)
(***************************************************************************)
\* the store after n calls of update_model with the same pair
Fed(n, pair) ==
    LastN([i \in 1..n |-> [actual_wait_time |-> pair[1],
                            predicted_wait_time |-> pair[2],
                            timestamp |-> i]],
          FEEDBACK_CAPACITY)

\* a store of n records (n > 10) whose 10 most recent come from one pair and
\* whose older ones from another
Mixed(n, old, recent) ==
    [i \in 1..n |->
        LET pair == IF i <= n - 10 THEN old ELSE recent
        IN [actual_wait_time |-> pair[1], predicted_wait_time |-> pair[2],
            timestamp |-> i]]

StoreSizes == {0, 5, 10, 11, MaxStore - 1, MaxStore}

Stores ==
    {Fed(n, pair) : n \in StoreSizes, pair \in {<<10, 10>>, <<10, 2>>}}
    \cup {Mixed(n, change[1], change[2]) :
             n \in {11, MaxStore},
             change \in {<< <<10, 2>>, <<10, 10>> >>, << <<10, 10>>, <<10, 2>> >>,
                         << <<10, 10>>, <<10, 5>> >>, << <<10, 2>>, <<10, 5>> >>}}

PredictClocks == {<<9, "Monday">>, <<2, "Sunday">>}

PredictSeverities == {"Critical", "Urgent", "Stable", "Medium"}

PredictAges == {10, 45, 70}

PredictSymptoms ==
    { <<"fever">>, <<"fever", "headache">>,
      <<"fever", "headache", "nausea", "vomiting">> }

\* n patients waiting, all of one level, and one already called
QueueOf(n, level) ==
    {[called |-> FALSE, eta |-> LeadMinutes, id |-> i, severity_level |-> level] :
        i \in 1..n}
    \cup {[called |-> TRUE, eta |-> LeadMinutes, id |-> n + 1,
           severity_level |-> "Critical"]}

\* ai_predictor.predict_waiting_time(patient_data, current_queue)
predict(patient_data, types, n, level) ==
    /\ ops < MaxPredicts
    /\ ops' = ops + 1
    /\ ret' = [op |-> "predict", level |-> level, patient_data |-> patient_data,
               result |-> predict_waiting_time_result(patient_data, types,
                              QueueOf(n, level), hour, day_of_week,
                              historical_data),
               types |-> types, waiting |-> n]
    /\ UNCHANGED << patients, jobs, submitted, log, now, hour, day_of_week,
                    historical_data, handlers, gen, dirty, missed,
                    served_ended, ev >>

PredictInit ==
    /\ \E clock \in PredictClocks : hour = clock[1] /\ day_of_week = clock[2]
    /\ historical_data \in Stores
    /\ patients = <<>>
    /\ jobs = {}
    /\ submitted = {}
    /\ log = EmptyBag
    /\ now = 0
    /\ handlers = [h \in Handlers |-> IdleHandler]
    /\ gen = 0
    /\ ops = 0
    /\ dirty = FALSE
    /\ missed = FALSE
    /\ served_ended = {}
    /\ ev = Quiet
    /\ ret = NoCall

\* the calls made with an age and a symptom list of the declared types
WellTyped == [age |-> "int", symptoms |-> "list"]

PredictPatients ==
    {[age |-> age, severity_level |-> sev, symptoms |-> symptoms] :
        age \in PredictAges, sev \in PredictSeverities,
        symptoms \in PredictSymptoms}

\* the calls whose symptoms are one string, with an age of each Python type
\* that a JSON body can carry there: << patient_data, types >>
LooselyTyped ==
    {<<[age |-> IF age_type = "int" THEN 45 ELSE 0,
        severity_level |-> sev, symptoms |-> <<"fever">>],
       [age |-> age_type, symptoms |-> "str"]>> :
        age_type \in {"int", "str", "NoneType"}, sev \in PredictSeverities}

PredictNext ==
    \/ \E patient_data \in PredictPatients, n \in 0..MaxQueue,
          level \in {"Critical", "Stable"} :
            predict(patient_data, WellTyped, n, level)
    \/ \E call \in LooselyTyped, n \in 0..MaxQueue,
          level \in {"Critical", "Stable"} :
            predict(call[1], call[2], n, level)

PredictSpec == PredictInit /\ [][PredictNext]_vars

\* C16: predict returns on every input; when the main computation faults
\* (an age that is no number) the answer is the fallback: eta by severity
\* alone over the number of patients waiting, confidence 0.5, one insight.
C16_FallbackOnFault ==
    ret.op = "predict" =>
        LET r == ret.result
            n == ret.waiting
            sev == ret.patient_data.severity_level
        IN /\ r.path = IF ret.types.age = "int" THEN "main" ELSE "fallback"
           /\ r.path = "fallback" =>
                 /\ r.predicted_wait_time =
                        CASE sev = "Critical" -> 5
                          [] sev = "Urgent" -> 10 + 2 * n
                          [] sev = "Medium" -> 20 + 3 * n
                          [] OTHER -> 30 + 4 * n
                 /\ r.confidence_score = 5
                 /\ Len(r.insights) = 1

\* predict was given an age of the wrong type with patients waiting
C16_Witness ==
    /\ ret.op = "predict"
    /\ ret.types.age = "str"
    /\ ret.waiting > 0
    /\ ret.patient_data.severity_level = "Urgent"
    /\ ret.result.path = "fallback"

\* C17: on the main and on the fallback path the eta returned is an integer
\* >= 1: the adjusted time floored, raised to 1 when the floor is 0.
C17_EtaFlooredAtLeastOne ==
    ret.op = "predict" =>
        LET r == ret.result
            t == r.ai_adjusted_time
            eta == r.predicted_wait_time
        IN /\ eta \in Nat
           /\ eta >= 1
           /\ r.path = "main" =>
                 IF t.n < t.d THEN eta = 1
                 ELSE eta * t.d <= t.n /\ t.n < (eta + 1) * t.d

\* a main-path prediction whose adjusted time is below one minute
C17_Witness ==
    /\ ret.op = "predict"
    /\ ret.result.path = "main"
    /\ ret.result.ai_adjusted_time.n < ret.result.ai_adjusted_time.d
    /\ ret.result.predicted_wait_time = 1

\* C18: the confidence (in tenths) lies in [1, 10]; on the main path it is
\* 8, +1 with more than 50 records in the store, -1 with more than 10
\* waiting, -2 for Critical with more than 5 waiting, clamped; 5 on the
\* fallback path.
C18_Confidence ==
    ret.op = "predict" =>
        LET r == ret.result
            n == ret.waiting
            raw == 8 + (IF Len(historical_data) > 50 THEN 1 ELSE 0)
                     - (IF n > 10 THEN 1 ELSE 0)
                     - (IF ret.patient_data.severity_level = "Critical" /\ n > 5
                        THEN 2 ELSE 0)
        IN /\ r.confidence_score \in 1..10
           /\ r.path = "main" =>
                 r.confidence_score = (IF raw < 1 THEN 1 ELSE IF raw > 10 THEN 10 ELSE raw)
           /\ r.path = "fallback" => r.confidence_score = 5

\* a Critical patient predicted behind more than 10 waiting with more than
\* 50 records in the store
C18_Witness ==
    /\ ret.op = "predict"
    /\ ret.result.path = "main"
    /\ ret.patient_data.severity_level = "Critical"
    /\ ret.waiting > 10
    /\ Len(historical_data) > 50
    /\ ret.result.confidence_score = 6

(***************************************************************************)
(* The severity scorer on its own: triage.py applied to symptom lists and  *)
(* ages, and the rows POST /patients/ stores from its answers.             *)
(***************************************************************************)
\* strings that no key of SYMPTOM_SEVERITY equals, before or after lower/strip
UnknownSymptoms == {"hiccups", "broken arm"}

ScorerSymptoms ==
    { <<>>, <<"hiccups">>, <<"sore throat">>, <<"headache">>,
      <<"persistent cough">>, <<"fever">>, <<"FEVER">>, <<" Headache ">>,
      <<"abdominal pain">>, <<"chest pain">>, <<"severe pain">>,
      <<"fever", "headache">>, <<"fever", "hiccups">>,
      <<"severe pain", "hiccups">>, <<"sore throat", "runny nose">>,
      <<"Chest Pain", "shortness of breath">> }

\* ages on both sides of every comparison of lines 18-22 and 36, and below 0
ScorerAges == {-5, -1, 0, 1, 4, 5, 17, 18, 30, 64, 65, 75, 76}

ScorerInputs ==
    {[age |-> age, symptoms |-> symptoms] :
        age \in ScorerAges, symptoms \in ScorerSymptoms}

\* admissions whose scores are 0, 3, 4, 6, 7 and 20
ScorerAdmits ==
    { [age |-> 30, symptoms |-> <<>>],
      [age |-> 30, symptoms |-> <<"persistent cough">>],
      [age |-> 30, symptoms |-> <<"fever">>],
      [age |-> 10, symptoms |-> <<"fever">>],
      [age |-> 30, symptoms |-> <<"chest pain">>],
      [age |-> 45, symptoms |-> <<"Chest Pain", "shortness of breath">>] }

\* get_triage_score(symptoms, age), then get_severity_level(score)
triage(inp) ==
    /\ ops < MaxOps
    /\ ops' = ops + 1
    /\ ret' = LET score == get_triage_score(inp.symptoms, inp.age)
              IN [op |-> "triage", age |-> inp.age, level |-> get_severity_level(score),
                  score |-> score, symptoms |-> inp.symptoms]
    /\ UNCHANGED << patients, jobs, submitted, log, now, hour, day_of_week,
                    historical_data, handlers, gen, dirty, missed,
                    served_ended, ev >>

ScorerInit ==
    /\ hour \in ClockHours
    /\ day_of_week \in ClockDays
    /\ historical_data = <<>>
    /\ patients = <<>>
    /\ jobs = {}
    /\ submitted = {}
    /\ log = EmptyBag
    /\ now = 0
    /\ handlers = [h \in Handlers |-> IdleHandler]
    /\ gen = 0
    /\ ops = 0
    /\ dirty = FALSE
    /\ missed = FALSE
    /\ served_ended = {}
    /\ ev = Quiet
    /\ ret = NoCall

ScorerNext ==
    \/ \E inp \in ScorerInputs : triage(inp)
    \/ \E h \in Handlers, user \in 1..MaxUsers, inp \in ScorerAdmits :
          /\ user <= Len(patients) + 1
          /\ create_patient(h, user, inp)
    \/ \E h \in Handlers : broadcast(h)
    \/ \E h \in Handlers : broadcast_fails(h)
    \/ \E h \in Handlers : \E adv \in SUBSET OnTheEdge(h) : resync(h, adv)

ScorerSpec == ScorerInit /\ [][ScorerNext]_vars

\* the thresholds: Critical iff score >= 7, Urgent iff 4 <= score < 7,
\* Stable otherwise
Agrees(score, level) ==
    /\ score \in Nat
    /\ level \in {"Critical", "Urgent", "Stable"}
    /\ (level = "Critical") <=> (score >= 7)
    /\ (level = "Urgent") <=> (4 <= score /\ score < 7)

SeverityRank(level) ==
    CASE level = "Critical" -> 2 [] level = "Urgent" -> 1 [] OTHER -> 0

\* C19: the score is >= 0 and the level follows from the score alone by the
\* thresholds, for every scorer call and for every row stored on admission;
\* a row with a higher score never has a less severe level.
C19_LevelFollowsScore ==
    /\ ret.op = "triage" => Agrees(ret.score, ret.level)
    /\ \A i \in DOMAIN patients :
          Agrees(patients[i].triage_score, patients[i].severity_level)
    /\ \A i \in DOMAIN patients : \A k \in DOMAIN patients :
          patients[i].triage_score >= patients[k].triage_score =>
              SeverityRank(patients[i].severity_level)
                  >= SeverityRank(patients[k].severity_level)

\* a call scoring exactly 7 answered Critical, with a stored row of score 6
\* held Urgent
C19_Witness ==
    /\ ret.op = "triage"
    /\ ret.score = 7
    /\ ret.level = "Critical"
    /\ \E i \in DOMAIN patients :
          /\ patients[i].triage_score = 6
          /\ patients[i].severity_level = "Urgent"

\* C20: a symptom that is not in the severity table adds 0 to the score, and
\* a negative age gives the score of age 0 for the same symptoms.
C20_PermissiveScorer ==
    ret.op = "triage" =>
        /\ \A u \in UnknownSymptoms :
              get_triage_score(Append(ret.symptoms, u), ret.age) = ret.score
        /\ \A k \in DOMAIN ret.symptoms :
              ret.symptoms[k] \in UnknownSymptoms =>
                  ret.score = get_triage_score(
                      SubSeq(ret.symptoms, 1, k - 1)
                          \o SubSeq(ret.symptoms, k + 1, Len(ret.symptoms)),
                      ret.age)
        /\ ret.age < 0 => ret.score = get_triage_score(ret.symptoms, 0)

\* a negative age scored with a known and an unknown symptom
C20_Witness ==
    /\ ret.op = "triage"
    /\ ret.age < 0
    /\ ret.symptoms = <<"severe pain", "hiccups">>
    /\ ret.score = 15

(***************************************************************************)
(* Timer registration that fails.  scheduler.add_job (line 486) stands in  *)
(* no try block, and neither does the call of line 147 / 187: when it      *)
(* raises for the k-th patient of the window, the jobs of the patients     *)
(* before it are registered and the exception leaves the handler.          *)
(***************************************************************************)
resync_add_job_raises(h, k, adv) ==
    LET window == Window(patients_in_queue(patients))
    IN /\ handlers[h].pc = "resync"
       /\ k \in 1..Len(window)
       /\ jobs' = RegisterFrom(remove_notify_jobs(jobs), SubSeq(window, 1, k - 1),
                               patients, handlers[h], now, gen + 1, adv)
       /\ gen' = gen + 1
       /\ missed' = TRUE
       /\ handlers' = Ended(h, "fail", FALSE)
       /\ served_ended' = ServedEnded(h)
       \* flag: the handler went on to its return statement
       /\ ev' = Event("addfail", window[k], gen + 1, FALSE, FALSE)
       /\ UNCHANGED ret
       /\ UNCHANGED << patients, submitted, log, now, hour, day_of_week,
                       historical_data, ops, dirty >>

FaultNext ==
    \/ Next
    \/ \E h \in Handlers, k \in 1..NOTIFICATION_WINDOW :
          \E adv \in SUBSET OnTheEdge(h) : resync_add_job_raises(h, k, adv)

FaultSpec == Init /\ [][FaultNext]_vars

\* C21: when registration fails for one entity during a resync, the handler
\* still returns to its caller, that entity has no pending job and every
\* other entity of the window has its job.
C21_RegistrationFaultContained ==
    ev.op = "addfail" =>
        /\ ev.flag
        /\ ev.id \notin JobIds
        /\ \A i \in TopIds \ {ev.id} : i \in JobIds

(***************************************************************************)
(* The estimator's arithmetic, under PredictSpec                           *)
(***************************************************************************)
\* eta = max(1, floor(n / d))
FloorIs(eta, n, d) ==
    IF n < d THEN eta = 1 ELSE eta * d <= n /\ n < (eta + 1) * d

\* a Critical patient predicted on the main path with nobody waiting
CriticalAlone ==
    /\ ret.op = "predict"
    /\ ret.result.path = "main"
    /\ ret.patient_data.severity_level = "Critical"
    /\ ret.waiting = 0

\* 15 x 1 x timeOfDay x dayOfWeek x complexity x age multiplier, every
\* factor in tenths: the product of the claim times 10^5
EmptyQueueProduct ==
    BaseMinutes * 1
        * time_of_day_factor(time_period(hour))
        * day_of_week_factor(day_of_week)
        * symptom_complexity(Complexity(Len(ret.patient_data.symptoms)))
        * (IF ret.patient_data.age < 18 \/ ret.patient_data.age > 65 THEN 9 ELSE 10)

\* the store makes lines 170-174 scale the time up
LowAccuracy ==
    LET acc == calculate_recent_accuracy(historical_data)
    IN Len(historical_data) > 10 /\ acc.n * 10 < 7 * acc.d

\* C22 as stated: for a Critical patient and an empty queue the eta is
\* max(1, floor(15 x 0.1 x timeOfDay x dayOfWeek x complexity x age)).
C22_EmptyQueueEta ==
    CriticalAlone => FloorIs(ret.result.predicted_wait_time, EmptyQueueProduct, 100000)

\* C22 amended: the same product, times 1 + (0.7 - mean) x 0.2 when the
\* store holds more than 10 records whose recent mean accuracy is below 0.7.
C22_EmptyQueueEtaWithFeedback ==
    CriticalAlone =>
        LET acc == calculate_recent_accuracy(historical_data)
        IN IF LowAccuracy
           THEN FloorIs(ret.result.predicted_wait_time,
                        EmptyQueueProduct * (57 * acc.d - 10 * acc.n),
                        100000 * 50 * acc.d)
           ELSE FloorIs(ret.result.predicted_wait_time, EmptyQueueProduct, 100000)

\* a Critical patient alone, with a store of low accuracy that moves the
\* eta from 1 to 2
C22_Witness ==
    /\ CriticalAlone
    /\ LowAccuracy
    /\ ret.result.predicted_wait_time = 2
    /\ EmptyQueueProduct < 200000

\* what the last call returns with the store S in place of the store it saw
AdjustedWith(S) ==
    predict_waiting_time_result(ret.patient_data, ret.types,
                                QueueOf(ret.waiting, ret.level), hour,
                                day_of_week, S).ai_adjusted_time

EtaWith(S) ==
    predict_waiting_time_result(ret.patient_data, ret.types,
                                QueueOf(ret.waiting, ret.level), hour,
                                day_of_week, S).predicted_wait_time

\* C23: the time is scaled only when the store holds more than 10 records
\* and the mean accuracy of its 10 most recent is below 0.7, then by
\* 1 + (0.7 - mean) x 0.2 >= 1; two stores of one size with the same 10
\* most recent records give the same eta.
C23_AdaptiveAdjustment ==
    (ret.op = "predict" /\ ret.result.path = "main") =>
        LET t == ret.result.ai_adjusted_time
            plain == AdjustedWith(<<>>)
            recent == LastN(historical_data, 10)
            total == SumAccuracy(recent)
            mean == Rat(total.n, total.d * 10)
            \* 1 + (0.7 - mean) x 0.2
            factor == Rat(57 * mean.d - 10 * mean.n, 50 * mean.d)
        IN /\ IF Len(historical_data) > 10 /\ mean.n * 10 < 7 * mean.d
              THEN /\ t = RatMul(plain, factor.n, factor.d)
                   /\ factor.n >= factor.d
              ELSE t = plain
           /\ \A S \in Stores :
                 (Len(S) = Len(historical_data) /\ LastN(S, 10) = recent)
                     => EtaWith(S) = ret.result.predicted_wait_time

\* the older record of the store is accurate, the 10 most recent are not,
\* and the eta is scaled from 1 to 2
C23_Witness ==
    /\ ret.op = "predict"
    /\ ret.result.path = "main"
    /\ Len(historical_data) = 11
    /\ historical_data[1].predicted_wait_time = 10
    /\ historical_data[2].predicted_wait_time = 2
    /\ ret.result.predicted_wait_time = 2
    /\ EtaWith(<<>>) = 1

(***************************************************************************)
(* The high-priority count of the estimator at admission, under Spec       *)
(***************************************************************************)
\* a handler has just committed POST /patients/
AdmitStep(h) ==
    /\ handlers[h].pc = "idle"
    /\ handlers'[h].pc = "broadcast"
    /\ handlers'[h].kind = "admit"

\* the non-served Critical/Urgent rows that come before row id in the order
\* (triage_score descending, queued_at ascending)
HighPriorityAhead(db, id) ==
    {k \in DOMAIN db \ {id} :
        /\ ~db[k].called
        /\ db[k].severity_level \in {"Critical", "Urgent"}
        /\ Precedes(db, k, id)}

\* the eta of row id of table after, predicted over the queue of table
\* before, with the high-priority feature counting the rows ahead only
EtaCountingAhead(before, after, id) ==
    LET patient_data == [age |-> after[id].age,
                         severity_level |-> after[id].severity_level,
                         symptoms |-> after[id].symptoms]
        read == extract_features(patient_data, current_queue(before), hour,
                                 day_of_week)
        features == [read EXCEPT !.high_priority_in_queue =
                                     Cardinality(HighPriorityAhead(after, id))]
    IN Max(1, RatFloor(apply_ai_adjustments(calculate_base_waiting_time(features),
                                            features, historical_data)))

\* C24: the eta stored at admission is the one obtained when the
\* high-priority count takes only the non-served Critical/Urgent entities
\* ahead of the admitted one, not the entity itself nor those behind it.
C24_CountsOnlyAhead ==
    [][\A h \in Handlers :
          AdmitStep(h) =>
              patients'[handlers'[h].pid].eta =
                  EtaCountingAhead(patients, patients', handlers'[h].pid)]_vars

(***************************************************************************)
(* The read-only endpoints next to the handlers and to update_model: who   *)
(* writes the feedback store, the rows and the job store.                  *)
(***************************************************************************)
\* GET /ai/predict-wait-time: severity_level, the parts of symptoms between
\* commas, age
PredictQueries ==
    { [age |-> 45, severity_level |-> "Critical", symptoms |-> <<"chest pain">>],
      [age |-> 70, severity_level |-> "Urgent", symptoms |-> <<"fever ", "headache">>] }

\* line 265: [s.strip() for s in symptoms.split(',')]
symptoms_list(parts) == [i \in DOMAIN parts |-> Strip(parts[i])]

\* round(x, 1) of x = n / d, in tenths (ties to even)
RoundTenths(n, d) ==
    LET q == (10 * n) \div d
        r == (10 * n) % d
    IN IF 2 * r > d THEN q + 1
       ELSE IF 2 * r < d THEN q
       ELSE IF q % 2 = 0 THEN q ELSE q + 1

RECURSIVE SumEta(_, _)
SumEta(db, ids) ==
    IF ids = {} THEN 0
    ELSE LET i == CHOOSE k \in ids : TRUE IN db[i].eta + SumEta(db, ids \ {i})

\* ai_predictor.get_queue_analytics over every row of the table
queue_analytics(db, h) ==
    LET uncalled == {i \in DOMAIN db : ~db[i].called}
        levels == {db[i].severity_level : i \in uncalled}
        priority_dist ==
            [l \in levels |->
                Cardinality({i \in uncalled : db[i].severity_level = l})]
        \* avg_wait > 45
        long_wait == uncalled # {} /\ SumEta(db, uncalled) > 45 * Cardinality(uncalled)
        critical == IF "Critical" \in levels THEN priority_dist["Critical"] ELSE 0
    IN IF db = <<>>
       THEN [average_wait_time |-> 0, peak_hour_prediction |-> "No data available",
             priority_distribution |-> <<>>,
             recommendations |-> <<"No patients in queue">>,
             total_patients |-> 0, uncalled_patients |-> 0]
       ELSE [average_wait_time |->
                 IF uncalled = {} THEN 0
                 ELSE RoundTenths(SumEta(db, uncalled), Cardinality(uncalled)),
             peak_hour_prediction |->
                 IF 9 <= h /\ h <= 11 THEN "Currently in peak hours (9-11 AM)"
                 ELSE IF 14 <= h /\ h <= 16 THEN "Currently in peak hours (2-4 PM)"
                 ELSE "Peak hours expected at 9-11 AM or 2-4 PM",
             priority_distribution |-> priority_dist,
             recommendations |->
                 (IF Cardinality(uncalled) > 8
                  THEN <<"High queue volume - consider additional staff">> ELSE <<>>)
                 \o (IF critical > 2
                     THEN <<"Multiple critical patients - prioritize urgent care">>
                     ELSE <<>>)
                 \o (IF long_wait
                     THEN <<"Long wait times - inform patients of delays">> ELSE <<>>),
             total_patients |-> Len(db),
             uncalled_patients |-> Cardinality(uncalled)]

predict_and_learn(query) ==
    /\ ops < MaxFrameCalls
    /\ ops' = ops + 1
    /\ historical_data' =
           store_record(historical_data,
                        [actual_wait_time |-> 1, predicted_wait_time |-> 1,
                         timestamp |-> ops + 1])
    /\ ret' = [op |-> "predict_wait_time", call |-> ops + 1, query |-> query,
               result |-> predict_waiting_time_result(
                              [age |-> query.age,
                               severity_level |-> query.severity_level,
                               symptoms |-> symptoms_list(query.symptoms)],
                              WellTyped, current_queue(patients), hour,
                              day_of_week, historical_data)]
    /\ UNCHANGED << patients, jobs, submitted, log, now, hour, day_of_week,
                    handlers, gen, dirty, missed, served_ended, ev >>

\* GET /ai/predict-wait-time (app.py lines 245-274): no commit, no resync
predict_wait_time(query) ==
    /\ ops < MaxFrameCalls
    /\ ops' = ops + 1
    /\ ret' = [op |-> "predict_wait_time", call |-> ops + 1, query |-> query,
               result |-> predict_waiting_time_result(
                              [age |-> query.age,
                               severity_level |-> query.severity_level,
                               symptoms |-> symptoms_list(query.symptoms)],
                              WellTyped, current_queue(patients), hour,
                              day_of_week, historical_data)]
    /\ UNCHANGED << patients, jobs, submitted, log, now, hour, day_of_week,
                    historical_data, handlers, gen, dirty, missed,
                    served_ended, ev >>

\* GET /ai/queue-analytics (app.py lines 225-243)
get_queue_analytics ==
    /\ ops < MaxFrameCalls
    /\ ops' = ops + 1
    /\ ret' = [op |-> "get_queue_analytics", call |-> ops + 1,
               result |-> queue_analytics(patients, hour)]
    /\ UNCHANGED << patients, jobs, submitted, log, now, hour, day_of_week,
                    historical_data, handlers, gen, dirty, missed,
                    served_ended, ev >>

FrameNext ==
    \/ \E h \in Handlers, user \in 1..MaxUsers, inp \in AdmitInputs :
          /\ user <= Len(patients) + 1
          /\ create_patient(h, user, inp)
    \/ \E h \in Handlers, id \in 1..MaxUsers, called \in BOOLEAN :
          update_patient(h, id, called)
    \/ \E h \in Handlers : broadcast(h)
    \/ \E h \in Handlers : broadcast_fails(h)
    \/ \E h \in Handlers : \E adv \in SUBSET OnTheEdge(h) : resync(h, adv)
    \/ \E query \in PredictQueries : predict_wait_time(query)
    \/ get_queue_analytics
    \/ \E pair \in FeedbackInputs :
          /\ ops < MaxFrameCalls
          /\ update_model(pair[1], pair[2])
    \/ \E pair \in FeedbackInputs :
          /\ ops < MaxFrameCalls
          /\ update_model_raises(pair[1], pair[2])

FrameSpec == Init /\ [][FrameNext]_vars

\* the step is a call of GET /ai/predict-wait-time
PredictStep == ret'.op = "predict_wait_time" /\ ret'.call = ops + 1 /\ ops' = ops + 1

\* the step is a call of update_model that appends its record
RecordStep ==
    /\ ret'.op = "update_model"
    /\ ret'.raised = "none"
    /\ ops' = ops + 1
    /\ historical_data' =
           store_record(historical_data,
                        [actual_wait_time |-> ret'.actual,
                         predicted_wait_time |-> ret'.predicted,
                         timestamp |-> ops + 1])

\* C25: a predict call leaves the feedback store, the rows and the pending
\* jobs as they were, and every step that changes the store is an
\* update_model call appending its record.
C25_StoreChangesOnlyByRecord ==
    [][/\ PredictStep => UNCHANGED << historical_data, patients, jobs >>
       /\ historical_data' # historical_data => RecordStep]_vars

\* predict has been called with a record in the store, rows in the table
\* and jobs pending
C25_Witness ==
    /\ ret.op = "predict_wait_time"
    /\ ret.call = ops
    /\ historical_data # <<>>
    /\ patients # <<>>
    /\ jobs # {}

(***************************************************************************)
(* The scorer over respelled, reordered and repeated lists, under          *)
(* ScorerSpec                                                              *)
(***************************************************************************)
Reverse(seq) == [i \in DOMAIN seq |-> seq[Len(seq) + 1 - i]]

\* the same symptom in another letter case or with spaces around it
Respell(symptom) ==
    CASE symptom = "fever" -> "FEVER"
      [] symptom = "FEVER" -> "fever "
      [] symptom = "headache" -> " Headache "
      [] symptom = " Headache " -> "headache"
      [] symptom = "chest pain" -> "Chest Pain"
      [] symptom = "Chest Pain" -> "chest pain"
      [] OTHER -> symptom

Respelled(symptoms) == [i \in DOMAIN symptoms |-> Respell(symptoms[i])]

\* C26: the score is unchanged by reordering the symptom list, by repeating
\* a symptom, and by changing the letter case or the surrounding whitespace
\* of a symptom.
C26_ScoreOfTheSymptomSet ==
    ret.op = "triage" =>
        /\ get_triage_score(Reverse(ret.symptoms), ret.age) = ret.score
        /\ \A k \in DOMAIN ret.symptoms :
              /\ get_triage_score(Append(ret.symptoms, ret.symptoms[k]), ret.age)
                     = ret.score
              /\ get_triage_score(<<ret.symptoms[k]>> \o ret.symptoms, ret.age)
                     = ret.score
        /\ get_triage_score(Respelled(ret.symptoms), ret.age) = ret.score
        /\ get_triage_score(Reverse(Respelled(ret.symptoms)), ret.age) = ret.score

\* two symptoms that score together, each with another spelling
C26_Witness ==
    /\ ret.op = "triage"
    /\ ret.symptoms = <<"fever", "headache">>
    /\ Respelled(ret.symptoms) = <<"FEVER", " Headache ">>
    /\ ret.age = 30
    /\ ret.score = 8

(***************************************************************************)
(* The rows POST /patients/ leaves, under Spec                             *)
(***************************************************************************)
\* C27: no two rows have one user_id, and an admit for a user_id that has a
\* row updates that row where it is, id and queued_at unchanged, and adds
\* no row.
C27_OneRecordPerUser ==
    /\ [](\A i \in DOMAIN patients : \A k \in DOMAIN patients :
             patients[i].user_id = patients[k].user_id => i = k)
    /\ [][\A h \in Handlers :
             AdmitStep(h) =>
                 LET id == handlers'[h].pid
                 IN (\E i \in DOMAIN patients :
                        patients[i].user_id = patients'[id].user_id)
                    => /\ Len(patients') = Len(patients)
                       /\ patients[id].user_id = patients'[id].user_id
                       /\ patients'[id].queued_at = patients[id].queued_at]_vars

\* the first of several rows has just been admitted again, with other
\* symptoms than before
C27_Witness ==
    /\ ops = 1
    /\ Len(patients) >= 2
    /\ \E h \in Handlers :
          /\ handlers[h].pc = "broadcast"
          /\ handlers[h].kind = "admit"
          /\ handlers[h].pid = 1
    /\ patients[1].queued_at = 1
    /\ patients[1].triage_score # patients[2].triage_score

\* C28: when POST /patients/ has committed, the row of the admitted user
\* is non-served and is in the order reschedule_queue_notifications reads,
\* also when that user was admitted before and marked served since.
C28_AdmittedIsQueued ==
    [][\A h \in Handlers :
          AdmitStep(h) =>
              LET id == handlers'[h].pid
              IN /\ ~patients'[id].called
                 /\ \E k \in DOMAIN patients_in_queue(patients') :
                        patients_in_queue(patients')[k] = id]_vars

(***************************************************************************)
(* The level "Stable" on the two paths of predict_waiting_time, under      *)
(* PredictSpec                                                             *)
(***************************************************************************)
\* what the same call returns for a patient whose level is "Medium"
EtaAsMedium ==
    predict_waiting_time_result(
        [ret.patient_data EXCEPT !.severity_level = "Medium"], ret.types,
        QueueOf(ret.waiting, ret.level), hour, day_of_week,
        historical_data).predicted_wait_time

\* C29: a patient of level "Stable" gets, on the main path and on the
\* fallback path alike, the waiting time the same call gives a patient of
\* level "Medium".
C29_StableIsMedium ==
    (ret.op = "predict" /\ ret.patient_data.severity_level = "Stable")
        => ret.result.predicted_wait_time = EtaAsMedium

(***************************************************************************)
(* A server that never stops taking requests.  The counters of Spec (ops,  *)
(* gen, now) grow without bound on such a server, so here they stand       *)
(* still: requests are not counted, the clock's origin moves with the      *)
(* clock (run_date is the time left until the job is due, now stays 0),    *)
(* and two registrations of one id with one time left are one job.         *)
(***************************************************************************)
\* POST /patients/ (lines 84-138), not counted
create_patient_anytime(h, user, inp) ==
    /\ FreeSlot(h)
    /\ patients' = admit_row(patients, user, inp, hour, day_of_week, historical_data)
    /\ handlers' = Started(h, [pc |-> "broadcast", kind |-> "admit",
                               pid |-> RowOf(patients', user),
                               eta |-> patients'[RowOf(patients', user)].eta,
                               stale |-> TRUE, overlap |-> "no"])
    /\ dirty' = TRUE
    /\ ev' = Quiet
    /\ UNCHANGED << jobs, submitted, log, now, hour, day_of_week, historical_data,
                    gen, ops, missed, served_ended, ret >>

\* PUT /patients/{patient_id} (lines 171-178), not counted
update_patient_anytime(h, patient_id, called) ==
    /\ FreeSlot(h)
    /\ patient_id \in DOMAIN patients
    /\ patients' = [patients EXCEPT ![patient_id].called = called]
    /\ handlers' = Started(h, [pc |-> "broadcast",
                               kind |-> IF called THEN "serve" ELSE "unserve",
                               pid |-> patient_id, eta |-> patients[patient_id].eta,
                               stale |-> TRUE, overlap |-> "no"])
    /\ served_ended' = IF called THEN served_ended ELSE served_ended \ {patient_id}
    /\ dirty' = TRUE
    /\ ev' = Quiet
    /\ UNCHANGED << jobs, submitted, log, now, hour, day_of_week, historical_data,
                    gen, ops, missed, ret >>

\* lines 147 / 187 and the return: every notify job is removed and the
\* window's jobs are registered from the clock as it reads now
resync_anytime(h, adv) ==
    /\ handlers[h].pc = "resync"
    /\ jobs' = reschedule_queue_notifications(jobs, patients, handlers[h], now,
                                              gen, adv)
    /\ dirty' = FALSE
    /\ missed' = FALSE
    /\ handlers' = Ended(h, "ok", TRUE)
    /\ served_ended' = ServedEnded(h)
    /\ ev' = Event("resync", handlers[h].pid, gen, handlers[h].overlap = "ok", FALSE)
    /\ UNCHANGED << patients, submitted, log, now, hour, day_of_week,
                    historical_data, gen, ops, ret >>

\* lines 481-484: the closure runs; log keeps one copy of a key
send_next_notification_closure_anytime(j) ==
    /\ j \in submitted
    /\ submitted' = submitted \ {j}
    /\ log' = SetToBag(BagToSet(log) \cup {JobKey(j)})
    /\ ev' = Event("deliver", j.id, j.gen, FALSE, FALSE)
    /\ UNCHANGED << patients, jobs, now, hour, day_of_week, historical_data,
                    handlers, gen, ops, dirty, missed, served_ended, ret >>

\* the time left of every job, one unit of the clock later
Later(store) == {[j EXCEPT !.run_date = Max(@ - 1, now)] : j \in store}

\* one unit of the clock passes
Elapse ==
    /\ jobs' = Later(jobs)
    /\ ev' = Quiet
    /\ UNCHANGED << patients, submitted, log, now, hour, day_of_week,
                    historical_data, handlers, gen, ops, dirty, missed,
                    served_ended, ret >>

\* the timer of the job "notify_<id>" goes off
fire_for(id) == \E j \in jobs : j.id = id /\ fire(j)

\* the requests the server goes on taking: a user not yet known is admitted,
\* a patient is marked served or not served
Requests ==
    \/ \E user \in 1..MaxLiveUsers, inp \in AdmitInputs :
          /\ user = Len(patients) + 1
          /\ create_patient_anytime(1, user, inp)
    \/ \E id \in 1..MaxLiveUsers, called \in BOOLEAN :
          update_patient_anytime(1, id, called)

HandlerSteps ==
    \/ broadcast(1)
    \/ broadcast_fails(1)
    \/ \E adv \in SUBSET OnTheEdge(1) : resync_anytime(1, adv)

\* the server starts with the rows of at most MaxLiveUsers earlier admissions
LiveInit == Init /\ Len(patients) <= MaxLiveUsers

LiveNext ==
    \/ Requests
    \/ HandlerSteps
    \/ \E id \in 1..MaxLiveUsers : fire_for(id)
    \/ \E j \in submitted : send_next_notification_closure_anytime(j)
    \/ Elapse

\* the event loop runs a handler to its end, the clock moves, a timer that
\* is due again and again goes off, and a submitted closure is run
LiveSpec ==
    /\ LiveInit
    /\ [][LiveNext]_vars
    /\ WF_vars(HandlerSteps)
    /\ WF_vars(Elapse)
    /\ \A id \in 1..MaxLiveUsers : SF_vars(fire_for(id))
    /\ WF_vars(\E j \in submitted : send_next_notification_closure_anytime(j))

\* C30: a patient who has a job and stays non-served and in the window of
\* three from then on is notified, whatever requests the server goes on
\* taking.
C30_EventuallyNotified ==
    \A id \in 1..MaxLiveUsers :
        []((id \in JobIds /\ [](id \in TopIds))
              => <>(ev.op = "deliver" /\ ev.id = id))

====
